---- MODULE Spec2Model ----
(***************************************************************************)
(* core_application (src/core_application.cpp): a two-queue task          *)
(* scheduler.  One worker thread drains _bgTasks under _mutex and a       *)
(* condition variable; the main context drains _mainTasks under           *)
(* _mainMutex when the pump (MAIN_THREAD_ASYNC_EM_ASM) calls              *)
(* runMainTasks.  Every thread is a process with a program counter; one   *)
(* action is one step of the code between two points where another        *)
(* thread can observe or change the shared state.                         *)
(*                                                                         *)
(* A task is a non-empty callable, as at every call site of the source    *)
(* (lines 155-201): its body is the list of queues it submits to, one     *)
(* nested task after the other (runTask5 is <<"main", "bg", "main">>      *)
(* submitted to "bg").                                                     *)
(***************************************************************************)
EXTENDS Integers, Sequences, FiniteSets, TLC

\* ---------------------------------------------------------------- bounds
\* Tasks created in one behaviour (each gets a fresh id 1..MaxTasks).
MaxTasks == 3
\* Longest chain of nested submissions in a task body.
MaxDepth == 1

\* --------------------------------------------------------------- threads
Submitters == {"s1", "s2"}
Worker == "worker"
Main == "main"
Dtor == "dtor"
Runners == {Worker, Main}
Callers == Submitters \cup Runners
Threads == Callers \cup {Dtor}
Nobody == "nobody"

Queues == {"bg", "main"}
TaskIds == 1..MaxTasks

RECURSIVE SeqsUpTo(_, _)
SeqsUpTo(S, n) ==
    IF n = 0 THEN {<<>>}
    ELSE LET shorter == SeqsUpTo(S, n - 1)
         IN  shorter \cup {Append(s, x) : s \in shorter, x \in S}

\* The task bodies a submitter may pass as f.
Bodies == SeqsUpTo(Queues, MaxDepth)

\* function<void()>: the id names the callable, the body is what it does.
Task(i, b) == [id |-> i, body |-> b]
\* A default-constructed function<void()> (return {}), false in "task;".
NoTask == Task(0, <<>>)

VARIABLES
    pc,              \* each thread's position in the code
    arg,             \* f of the runOnBgThread/runOnMain call a thread is in
    cur,             \* the task a runner's loop holds in "task"
    bgTasks,         \* _bgTasks
    mainTasks,       \* _mainTasks
    done,            \* _done
    scheduled,       \* _scheduledToRunOnMain
    mutexOwner,      \* the thread holding _mutex
    mainMutexOwner,  \* the thread holding _mainMutex
    pumpPending,     \* MAIN_THREAD_ASYNC_EM_ASM requests not yet served
    nextId,          \* the next fresh task id
    \* history, read by the properties only
    pumpIssued,      \* pump requests issued so far
    transitions,     \* times _mainTasks went from empty to non-empty
    romReturned,     \* runOnMain calls that have returned
    appOrder,        \* per queue, the ids in the order they were appended
    startOrder,      \* per queue, the ids in the order their bodies started
    doneOrder,       \* per queue, the ids in the order their bodies finished
    appDrain,        \* per id, the runMainTasks invocation active at its append
    sawEmpty,        \* ids appended after that invocation found the queue empty
    ranIn,           \* per id, the runMainTasks invocation that ran it
    pumper,          \* ids whose runOnMain call issued a pump request
    preTeardown,     \* ids appended before ~core_application began
    atDone           \* ids in _bgTasks when _done was set

vars == <<pc, arg, cur, bgTasks, mainTasks, done, scheduled, mutexOwner,
          mainMutexOwner, pumpPending, nextId, pumpIssued, transitions,
          romReturned, appOrder, startOrder, doneOrder, appDrain, sawEmpty,
          ranIn, pumper, preTeardown, atDone>>

hist == <<pumpIssued, transitions, romReturned, appOrder, startOrder,
          doneOrder, appDrain, sawEmpty, ranIn, pumper, preTeardown, atDone>>

\* ---------------------------------------------------------------- helpers
Range(s) == {s[i] : i \in 1..Len(s)}
Ids(q) == {q[i].id : i \in 1..Len(q)}
Count(s, x) == Cardinality({i \in 1..Len(s) : s[i] = x})
IsPrefix(s, t) == Len(s) <= Len(t) /\ \A i \in 1..Len(s) : s[i] = t[i]

\* The object is gone once ~core_application has returned.
destroyed == pc[Dtor] = "returned"
\* runMainTasks invocations started so far.
drains == pumpIssued - pumpPending
\* A runMainTasks invocation has been entered and has not returned.
InRunMainTasks == pc[Main] \notin {"idle", "crashed"}
\* ... and its dequeueMain has not yet found _mainTasks empty.
Draining == InRunMainTasks /\ pc[Main] # "rmt_ret"
\* The thread is inside a task body (task() at lines 47 and 116), and has
\* not trapped.
InBody(t) == t \in Runners /\ cur[t] # NoTask /\ pc[t] # "crashed"

\* Where a thread continues when runOnBgThread/runOnMain returns: a
\* submitter is done, a runner is back in the task body that made the call.
AfterCall(t) == IF t \in Submitters THEN "idle" ELSE "body_end"

Init ==
    /\ pc = [t \in Threads |->
                CASE t = Worker -> "dq_lock"
                  [] OTHER -> "idle"]
    /\ arg = [t \in Callers |-> NoTask]
    /\ cur = [t \in Runners |-> NoTask]
    /\ bgTasks = <<>>
    /\ mainTasks = <<>>
    /\ done = FALSE
    /\ scheduled = FALSE
    /\ mutexOwner = Nobody
    /\ mainMutexOwner = Nobody
    /\ pumpPending = 0
    /\ nextId = 1
    /\ pumpIssued = 0
    /\ transitions = 0
    /\ romReturned = 0
    /\ appOrder = [q \in Queues |-> <<>>]
    /\ startOrder = [q \in Queues |-> <<>>]
    /\ doneOrder = [q \in Queues |-> <<>>]
    /\ appDrain = [i \in TaskIds |-> 0]
    /\ sawEmpty = {}
    /\ ranIn = [i \in TaskIds |-> 0]
    /\ pumper = {}
    /\ preTeardown = {}
    /\ atDone = {}

\* ------------------------------------------------- external submissions
\* Mutant of Entry: every submission goes to runOnBgThread.
EntryAlwaysBg(q) == "rob_lock"

\* The first instruction of a call: "rob_lock" for runOnBgThread,
\* "rom_lock" for runOnMain.
Entry(q) == IF q = "bg" THEN "rob_lock" ELSE "rom_lock"

\* A thread other than the worker and the main context calls
\* runOnBgThread(f) or runOnMain(f) (runTask1..runTask5).  The ids of the
\* tasks f will submit in turn are reserved with it.  Callers make no call
\* once teardown has begun.
Submit(s) ==
    /\ pc[s] = "idle"
    /\ pc[Dtor] = "idle"
    /\ \E q \in Queues, b \in Bodies :
        /\ nextId + Len(b) <= MaxTasks
        /\ arg' = [arg EXCEPT ![s] = Task(nextId, b)]
        /\ nextId' = nextId + Len(b) + 1
        /\ pc' = [pc EXCEPT ![s] = Entry(q)]
    /\ UNCHANGED <<cur, bgTasks, mainTasks, done, scheduled, mutexOwner,
                   mainMutexOwner, pumpPending, hist>>

\* -------------------------------------------------------- runOnBgThread
\* unique_lock lock{_mutex}                                      (line 90)
RunOnBgThreadLock(t) ==
    /\ pc[t] = "rob_lock"
    /\ mutexOwner = Nobody
    /\ mutexOwner' = t
    /\ pc' = [pc EXCEPT ![t] = "rob_append"]
    /\ UNCHANGED <<arg, cur, bgTasks, mainTasks, done, scheduled,
                   mainMutexOwner, pumpPending, nextId, hist>>

\* _bgTasks.emplace_back(f); the lock's scope ends             (lines 91-92)
RunOnBgThreadAppend(t) ==
    /\ pc[t] = "rob_append"
    /\ mutexOwner = t
    /\ bgTasks' = Append(bgTasks, arg[t])
    /\ mutexOwner' = Nobody
    /\ appOrder' = [appOrder EXCEPT !["bg"] = Append(@, arg[t].id)]
    /\ pc' = [pc EXCEPT ![t] = "rob_notify"]
    /\ UNCHANGED <<arg, cur, mainTasks, done, scheduled, mainMutexOwner,
                   pumpPending, nextId, pumpIssued, transitions, romReturned,
                   startOrder, doneOrder, appDrain, sawEmpty, ranIn, pumper,
                   preTeardown, atDone>>

\* _condition.notify_one(): wakes the worker when it is blocked in the
\* wait, and is lost otherwise.
NotifyOne(p) ==
    IF p[Worker] = "cv_blocked" THEN [p EXCEPT ![Worker] = "cv_woken"] ELSE p

\* Mutant of RunOnBgThreadNotify: the call returns without notifying.
RunOnBgThreadNoNotify(t) ==
    /\ pc[t] = "rob_notify"
    /\ pc' = [pc EXCEPT ![t] = AfterCall(t)]
    /\ arg' = [arg EXCEPT ![t] = NoTask]
    /\ UNCHANGED <<cur, bgTasks, mainTasks, done, scheduled, mutexOwner,
                   mainMutexOwner, pumpPending, nextId, hist>>

\* _condition.notify_one(); return                                (line 93)
RunOnBgThreadNotify(t) ==
    /\ pc[t] = "rob_notify"
    /\ pc' = [NotifyOne(pc) EXCEPT ![t] = AfterCall(t)]
    /\ arg' = [arg EXCEPT ![t] = NoTask]
    /\ UNCHANGED <<cur, bgTasks, mainTasks, done, scheduled, mutexOwner,
                   mainMutexOwner, pumpPending, nextId, hist>>

\* ------------------------------------------------------------ runOnMain
\* unique_lock lock{_mainMutex}                                   (line 99)
RunOnMainLock(t) ==
    /\ pc[t] = "rom_lock"
    /\ mainMutexOwner = Nobody
    /\ mainMutexOwner' = t
    /\ pc' = [pc EXCEPT ![t] = "rom_append"]
    /\ UNCHANGED <<arg, cur, bgTasks, mainTasks, done, scheduled, mutexOwner,
                   pumpPending, nextId, hist>>

\* _mainTasks.emplace_back(f)                                    (line 100)
RunOnMainAppend(t) ==
    /\ pc[t] = "rom_append"
    /\ mainMutexOwner = t
    /\ mainTasks' = Append(mainTasks, arg[t])
    /\ appOrder' = [appOrder EXCEPT !["main"] = Append(@, arg[t].id)]
    /\ transitions' = IF mainTasks = <<>> THEN transitions + 1 ELSE transitions
    /\ appDrain' = [appDrain EXCEPT ![arg[t].id] =
                        IF InRunMainTasks THEN drains ELSE 0]
    /\ sawEmpty' = IF pc[Main] = "rmt_ret" THEN sawEmpty \cup {arg[t].id}
                                            ELSE sawEmpty
    /\ pc' = [pc EXCEPT ![t] = "rom_check"]
    /\ UNCHANGED <<arg, cur, bgTasks, done, scheduled, mutexOwner,
                   mainMutexOwner, pumpPending, nextId, pumpIssued,
                   romReturned, startOrder, doneOrder, ranIn, pumper,
                   preTeardown, atDone>>

\* Mutant of RunOnMainCheck: the flag is tested but never set.
RunOnMainCheckNoSet(t) ==
    /\ pc[t] = "rom_check"
    /\ mainMutexOwner = t
    /\ mainMutexOwner' = Nobody
    /\ \/ /\ scheduled
          /\ pc' = [pc EXCEPT ![t] = AfterCall(t)]
          /\ arg' = [arg EXCEPT ![t] = NoTask]
          /\ romReturned' = romReturned + 1
       \/ /\ ~scheduled
          /\ pc' = [pc EXCEPT ![t] = "rom_pump"]
          /\ UNCHANGED <<arg, romReturned>>
    /\ UNCHANGED <<cur, bgTasks, mainTasks, done, scheduled, mutexOwner,
                   pumpPending, nextId, pumpIssued, transitions, appOrder,
                   startOrder, doneOrder, appDrain, sawEmpty, ranIn, pumper,
                   preTeardown, atDone>>

\* Mutant of RunOnMainCheck: the flag is set but never tested, so every
\* call issues a request.
RunOnMainCheckIgnoresFlag(t) ==
    /\ pc[t] = "rom_check"
    /\ mainMutexOwner = t
    /\ mainMutexOwner' = Nobody
    /\ scheduled' = TRUE
    /\ pc' = [pc EXCEPT ![t] = "rom_pump"]
    /\ UNCHANGED <<arg, cur, bgTasks, mainTasks, done, mutexOwner,
                   pumpPending, nextId, hist>>

\* if (_scheduledToRunOnMain) return; _scheduledToRunOnMain = true; the
\* lock's scope ends either way                             (lines 101-108)
RunOnMainCheck(t) ==
    /\ pc[t] = "rom_check"
    /\ mainMutexOwner = t
    /\ mainMutexOwner' = Nobody
    /\ \/ /\ scheduled
          /\ pc' = [pc EXCEPT ![t] = AfterCall(t)]
          /\ arg' = [arg EXCEPT ![t] = NoTask]
          /\ romReturned' = romReturned + 1
          /\ UNCHANGED scheduled
       \/ /\ ~scheduled
          /\ scheduled' = TRUE
          /\ pc' = [pc EXCEPT ![t] = "rom_pump"]
          /\ UNCHANGED <<arg, romReturned>>
    /\ UNCHANGED <<cur, bgTasks, mainTasks, done, mutexOwner, pumpPending,
                   nextId, pumpIssued, transitions, appOrder, startOrder,
                   doneOrder, appDrain, sawEmpty, ranIn, pumper, preTeardown, atDone>>

\* Mutant of RunOnMainPump: MAIN_THREAD_EM_ASM in place of
\* MAIN_THREAD_ASYNC_EM_ASM, so the call returns only when the request
\* has been served and the task has run.
RunOnMainPumpSync(t) ==
    /\ pc[t] = "rom_pump"
    /\ \/ /\ arg[t].id \notin pumper
          /\ pumpPending' = pumpPending + 1
          /\ pumpIssued' = pumpIssued + 1
          /\ pumper' = pumper \cup {arg[t].id}
          /\ UNCHANGED <<pc, arg, romReturned>>
       \/ /\ arg[t].id \in pumper
          /\ arg[t].id \in Range(doneOrder["main"])
          /\ romReturned' = romReturned + 1
          /\ pc' = [pc EXCEPT ![t] = AfterCall(t)]
          /\ arg' = [arg EXCEPT ![t] = NoTask]
          /\ UNCHANGED <<pumpPending, pumpIssued, pumper>>
    /\ UNCHANGED <<cur, bgTasks, mainTasks, done, scheduled, mutexOwner,
                   mainMutexOwner, nextId, transitions, appOrder, startOrder,
                   doneOrder, appDrain, sawEmpty, ranIn, preTeardown, atDone>>

\* MAIN_THREAD_ASYNC_EM_ASM(... ccall('runMainTasks') ...): the request is
\* queued for the main context and the call returns         (lines 109-112)
RunOnMainPump(t) ==
    /\ pc[t] = "rom_pump"
    /\ pumpPending' = pumpPending + 1
    /\ pumpIssued' = pumpIssued + 1
    /\ pumper' = pumper \cup {arg[t].id}
    /\ romReturned' = romReturned + 1
    /\ pc' = [pc EXCEPT ![t] = AfterCall(t)]
    /\ arg' = [arg EXCEPT ![t] = NoTask]
    /\ UNCHANGED <<cur, bgTasks, mainTasks, done, scheduled, mutexOwner,
                   mainMutexOwner, nextId, transitions, appOrder, startOrder,
                   doneOrder, appDrain, sawEmpty, ranIn, preTeardown, atDone>>

\* ------------------------------------------------- the worker (_thread)
\* dequeueBg: unique_lock lock{_mutex}                            (line 52)
DequeueBgLock ==
    /\ pc[Worker] = "dq_lock"
    /\ mutexOwner = Nobody
    /\ mutexOwner' = Worker
    /\ pc' = [pc EXCEPT ![Worker] = "dq_wait"]
    /\ UNCHANGED <<arg, cur, bgTasks, mainTasks, done, scheduled,
                   mainMutexOwner, pumpPending, nextId, hist>>

\* Mutant of DequeueBg: pop_back in place of pop_front.
DequeueBgPopBack ==
    /\ pc[Worker] = "dq_wait"
    /\ mutexOwner = Worker
    /\ mutexOwner' = Nobody
    /\ \/ /\ bgTasks = <<>> /\ ~done
          /\ pc' = [pc EXCEPT ![Worker] = "cv_blocked"]
          /\ UNCHANGED <<cur, bgTasks>>
       \/ /\ bgTasks = <<>> /\ done
          /\ pc' = [pc EXCEPT ![Worker] = "exited"]
          /\ UNCHANGED <<cur, bgTasks>>
       \/ /\ bgTasks # <<>>
          /\ cur' = [cur EXCEPT ![Worker] = bgTasks[Len(bgTasks)]]
          /\ bgTasks' = SubSeq(bgTasks, 1, Len(bgTasks) - 1)
          /\ pc' = [pc EXCEPT ![Worker] = "body"]
    /\ UNCHANGED <<arg, mainTasks, done, scheduled, mainMutexOwner,
                   pumpPending, nextId, hist>>

\* Mutant of DequeueBg: "if (_done) return {}", which stops at shutdown
\* with tasks still queued.
DequeueBgStopsWhenDone ==
    /\ pc[Worker] = "dq_wait"
    /\ mutexOwner = Worker
    /\ mutexOwner' = Nobody
    /\ \/ /\ bgTasks = <<>> /\ ~done
          /\ pc' = [pc EXCEPT ![Worker] = "cv_blocked"]
          /\ UNCHANGED <<cur, bgTasks>>
       \/ /\ done
          /\ pc' = [pc EXCEPT ![Worker] = "exited"]
          /\ UNCHANGED <<cur, bgTasks>>
       \/ /\ bgTasks # <<>> /\ ~done
          /\ cur' = [cur EXCEPT ![Worker] = Head(bgTasks)]
          /\ bgTasks' = Tail(bgTasks)
          /\ pc' = [pc EXCEPT ![Worker] = "body"]
    /\ UNCHANGED <<arg, mainTasks, done, scheduled, mainMutexOwner,
                   pumpPending, nextId, hist>>

\* Mutant of DequeueBg: the popped task is returned, and run, with _mutex
\* still held.
DequeueBgHoldsLock ==
    /\ pc[Worker] = "dq_wait"
    /\ mutexOwner = Worker
    /\ \/ /\ bgTasks = <<>> /\ ~done
          /\ mutexOwner' = Nobody
          /\ pc' = [pc EXCEPT ![Worker] = "cv_blocked"]
          /\ UNCHANGED <<cur, bgTasks>>
       \/ /\ bgTasks = <<>> /\ done
          /\ mutexOwner' = Nobody
          /\ pc' = [pc EXCEPT ![Worker] = "exited"]
          /\ UNCHANGED <<cur, bgTasks>>
       \/ /\ bgTasks # <<>>
          /\ cur' = [cur EXCEPT ![Worker] = Head(bgTasks)]
          /\ bgTasks' = Tail(bgTasks)
          /\ pc' = [pc EXCEPT ![Worker] = "body"]
          /\ UNCHANGED mutexOwner
    /\ UNCHANGED <<arg, mainTasks, done, scheduled, mainMutexOwner,
                   pumpPending, nextId, hist>>

\* dequeueBg with _mutex held: _condition.wait(lock, pred) blocks, releasing
\* the lock, while the queue is empty and _done is false; otherwise an
\* empty queue returns {} and ends the thread's loop, and a non-empty one
\* pops its front, which the loop then runs               (lines 46, 53-57)
DequeueBg ==
    /\ pc[Worker] = "dq_wait"
    /\ mutexOwner = Worker
    /\ mutexOwner' = Nobody
    /\ \/ /\ bgTasks = <<>> /\ ~done
          /\ pc' = [pc EXCEPT ![Worker] = "cv_blocked"]
          /\ UNCHANGED <<cur, bgTasks>>
       \/ /\ bgTasks = <<>> /\ done
          /\ pc' = [pc EXCEPT ![Worker] = "exited"]
          /\ UNCHANGED <<cur, bgTasks>>
       \/ /\ bgTasks # <<>>
          /\ cur' = [cur EXCEPT ![Worker] = Head(bgTasks)]
          /\ bgTasks' = Tail(bgTasks)
          /\ pc' = [pc EXCEPT ![Worker] = "body"]
    /\ UNCHANGED <<arg, mainTasks, done, scheduled, mainMutexOwner,
                   pumpPending, nextId, hist>>

\* The wait reacquires _mutex after a wake-up and tests the predicate
\* again                                                          (line 53)
CvReacquire ==
    /\ pc[Worker] = "cv_woken"
    /\ mutexOwner = Nobody
    /\ mutexOwner' = Worker
    /\ pc' = [pc EXCEPT ![Worker] = "dq_wait"]
    /\ UNCHANGED <<arg, cur, bgTasks, mainTasks, done, scheduled,
                   mainMutexOwner, pumpPending, nextId, hist>>

\* condition_variable::wait may wake without a notification.
SpuriousWake ==
    /\ pc[Worker] = "cv_blocked"
    /\ pc' = [pc EXCEPT ![Worker] = "cv_woken"]
    /\ UNCHANGED <<arg, cur, bgTasks, mainTasks, done, scheduled, mutexOwner,
                   mainMutexOwner, pumpPending, nextId, hist>>

\* ------------------------------------------------------ the main context
\* The pump serves one request: the extern "C" runMainTasks(app) calls
\* application->runMainTasks()                        (lines 204-207, 114)
RunMainTasksEnter ==
    /\ pc[Main] = "idle"
    /\ pumpPending > 0
    /\ pumpPending' = pumpPending - 1
    /\ pc' = [pc EXCEPT ![Main] = "dqm_lock"]
    /\ UNCHANGED <<arg, cur, bgTasks, mainTasks, done, scheduled, mutexOwner,
                   mainMutexOwner, nextId, hist>>

\* dequeueMain: unique_lock lock{_mainMutex}                      (line 66)
DequeueMainLock ==
    /\ pc[Main] = "dqm_lock"
    /\ mainMutexOwner = Nobody
    /\ mainMutexOwner' = Main
    /\ pc' = [pc EXCEPT ![Main] = "dqm_check"]
    /\ UNCHANGED <<arg, cur, bgTasks, mainTasks, done, scheduled, mutexOwner,
                   pumpPending, nextId, hist>>

\* Mutant of DequeueMain: the empty queue does not clear the flag.
DequeueMainKeepsFlag ==
    /\ pc[Main] = "dqm_check"
    /\ mainMutexOwner = Main
    /\ mainMutexOwner' = Nobody
    /\ \/ /\ mainTasks = <<>>
          /\ pc' = [pc EXCEPT ![Main] = "rmt_ret"]
          /\ UNCHANGED <<cur, mainTasks, ranIn>>
       \/ /\ mainTasks # <<>>
          /\ cur' = [cur EXCEPT ![Main] = Head(mainTasks)]
          /\ mainTasks' = Tail(mainTasks)
          /\ ranIn' = [ranIn EXCEPT ![Head(mainTasks).id] = drains]
          /\ pc' = [pc EXCEPT ![Main] = "body"]
    /\ UNCHANGED <<arg, bgTasks, done, scheduled, mutexOwner, pumpPending,
                   nextId, pumpIssued, transitions, romReturned, appOrder,
                   startOrder, doneOrder, appDrain, sawEmpty, pumper,
                   preTeardown, atDone>>

\* Mutant of DequeueMain: the flag is cleared by every call, also one that
\* pops a task.
DequeueMainClearsOnPop ==
    /\ pc[Main] = "dqm_check"
    /\ mainMutexOwner = Main
    /\ mainMutexOwner' = Nobody
    /\ scheduled' = FALSE
    /\ \/ /\ mainTasks = <<>>
          /\ pc' = [pc EXCEPT ![Main] = "rmt_ret"]
          /\ UNCHANGED <<cur, mainTasks, ranIn>>
       \/ /\ mainTasks # <<>>
          /\ cur' = [cur EXCEPT ![Main] = Head(mainTasks)]
          /\ mainTasks' = Tail(mainTasks)
          /\ ranIn' = [ranIn EXCEPT ![Head(mainTasks).id] = drains]
          /\ pc' = [pc EXCEPT ![Main] = "body"]
    /\ UNCHANGED <<arg, bgTasks, done, mutexOwner, pumpPending, nextId,
                   pumpIssued, transitions, romReturned, appOrder, startOrder,
                   doneOrder, appDrain, sawEmpty, pumper, preTeardown, atDone>>

\* Mutant of DequeueMain: the popped task is returned, and run, with
\* _mainMutex still held.
DequeueMainHoldsLock ==
    /\ pc[Main] = "dqm_check"
    /\ mainMutexOwner = Main
    /\ \/ /\ mainTasks = <<>>
          /\ mainMutexOwner' = Nobody
          /\ scheduled' = FALSE
          /\ pc' = [pc EXCEPT ![Main] = "rmt_ret"]
          /\ UNCHANGED <<cur, mainTasks, ranIn>>
       \/ /\ mainTasks # <<>>
          /\ cur' = [cur EXCEPT ![Main] = Head(mainTasks)]
          /\ mainTasks' = Tail(mainTasks)
          /\ ranIn' = [ranIn EXCEPT ![Head(mainTasks).id] = drains]
          /\ pc' = [pc EXCEPT ![Main] = "body"]
          /\ UNCHANGED <<scheduled, mainMutexOwner>>
    /\ UNCHANGED <<arg, bgTasks, done, mutexOwner, pumpPending, nextId,
                   pumpIssued, transitions, romReturned, appOrder, startOrder,
                   doneOrder, appDrain, sawEmpty, pumper, preTeardown, atDone>>

\* dequeueMain with _mainMutex held: an empty queue clears
\* _scheduledToRunOnMain and returns {}, a non-empty one pops its front;
\* the lock's scope ends either way                         (lines 67-74)
DequeueMain ==
    /\ pc[Main] = "dqm_check"
    /\ mainMutexOwner = Main
    /\ mainMutexOwner' = Nobody
    /\ \/ /\ mainTasks = <<>>
          /\ scheduled' = FALSE
          /\ pc' = [pc EXCEPT ![Main] = "rmt_ret"]
          /\ UNCHANGED <<cur, mainTasks, ranIn>>
       \/ /\ mainTasks # <<>>
          /\ cur' = [cur EXCEPT ![Main] = Head(mainTasks)]
          /\ mainTasks' = Tail(mainTasks)
          /\ ranIn' = [ranIn EXCEPT ![Head(mainTasks).id] = drains]
          /\ pc' = [pc EXCEPT ![Main] = "body"]
          /\ UNCHANGED scheduled
    /\ UNCHANGED <<arg, bgTasks, done, mutexOwner, pumpPending, nextId,
                   pumpIssued, transitions, romReturned, appOrder, startOrder,
                   doneOrder, appDrain, sawEmpty, pumper, preTeardown, atDone>>

\* The loop of runMainTasks sees the empty task and the call returns to
\* the pump                                               (lines 115, 118)
RunMainTasksReturn ==
    /\ pc[Main] = "rmt_ret"
    /\ pc' = [pc EXCEPT ![Main] = "idle"]
    /\ UNCHANGED <<arg, cur, bgTasks, mainTasks, done, scheduled, mutexOwner,
                   mainMutexOwner, pumpPending, nextId, hist>>

\* ------------------------------------------------------------ task bodies
\* Mutant of LoopOf: runMainTasks runs one task and returns ("if" in
\* place of "for").
LoopOfRunsOnce(r) == IF r = Worker THEN "dq_lock" ELSE "rmt_ret"

\* The queue a runner drains, and where its loop calls dequeue again.
QueueOf(r) == IF r = Worker THEN "bg" ELSE "main"
LoopOf(r) == IF r = Worker THEN "dq_lock" ELSE "dqm_lock"

\* task(): the body starts; a body that submits calls runOnBgThread or
\* runOnMain with its nested task                        (lines 47, 116)
TaskStart(r) ==
    /\ pc[r] = "body"
    /\ startOrder' = [startOrder EXCEPT ![QueueOf(r)] = Append(@, cur[r].id)]
    /\ IF cur[r].body = <<>>
         THEN /\ pc' = [pc EXCEPT ![r] = "body_end"]
              /\ UNCHANGED arg
         ELSE /\ pc' = [pc EXCEPT ![r] = Entry(Head(cur[r].body))]
              /\ arg' = [arg EXCEPT ![r] =
                            Task(cur[r].id + 1, Tail(cur[r].body))]
    /\ UNCHANGED <<cur, bgTasks, mainTasks, done, scheduled, mutexOwner,
                   mainMutexOwner, pumpPending, nextId, pumpIssued,
                   transitions, romReturned, appOrder, doneOrder, appDrain, sawEmpty,
                   ranIn, pumper, preTeardown, atDone>>

\* The body returns and the loop calls dequeue again      (lines 46, 115)
TaskEnd(r) ==
    /\ pc[r] = "body_end"
    /\ doneOrder' = [doneOrder EXCEPT ![QueueOf(r)] = Append(@, cur[r].id)]
    /\ cur' = [cur EXCEPT ![r] = NoTask]
    /\ pc' = [pc EXCEPT ![r] = LoopOf(r)]
    /\ UNCHANGED <<arg, bgTasks, mainTasks, done, scheduled, mutexOwner,
                   mainMutexOwner, pumpPending, nextId, pumpIssued,
                   transitions, romReturned, appOrder, startOrder, appDrain, sawEmpty,
                   ranIn, pumper, preTeardown, atDone>>

\* ---------------------------------------------------- ~core_application
\* The destructor is entered, by a thread other than the worker, while no
\* caller is inside a submission and the pump is not inside runMainTasks
\* (no call made on the object is in progress), and takes _mutex  (line 80)
DtorLock ==
    /\ pc[Dtor] = "idle"
    /\ \A s \in Submitters : pc[s] = "idle"
    /\ ~InRunMainTasks
    /\ mutexOwner = Nobody
    /\ mutexOwner' = Dtor
    /\ preTeardown' = Range(appOrder["bg"]) \cup Range(appOrder["main"])
    /\ pc' = [pc EXCEPT ![Dtor] = "dt_set"]
    /\ UNCHANGED <<arg, cur, bgTasks, mainTasks, done, scheduled,
                   mainMutexOwner, pumpPending, nextId, pumpIssued,
                   transitions, romReturned, appOrder, startOrder, doneOrder,
                   appDrain, sawEmpty, ranIn, pumper, atDone>>

\* _done = true; the lock's scope ends                      (lines 81-82)
DtorSetDone ==
    /\ pc[Dtor] = "dt_set"
    /\ mutexOwner = Dtor
    /\ done' = TRUE
    /\ mutexOwner' = Nobody
    /\ atDone' = Ids(bgTasks)
    /\ pc' = [pc EXCEPT ![Dtor] = "dt_notify"]
    /\ UNCHANGED <<arg, cur, bgTasks, mainTasks, scheduled, mainMutexOwner,
                   pumpPending, nextId, pumpIssued, transitions, romReturned,
                   appOrder, startOrder, doneOrder, appDrain, sawEmpty, ranIn, pumper,
                   preTeardown>>

\* Mutant of DtorNotify: the destructor goes to join without notifying.
DtorNoNotify ==
    /\ pc[Dtor] = "dt_notify"
    /\ pc' = [pc EXCEPT ![Dtor] = "dt_join"]
    /\ UNCHANGED <<arg, cur, bgTasks, mainTasks, done, scheduled, mutexOwner,
                   mainMutexOwner, pumpPending, nextId, hist>>

\* _condition.notify_one()                                        (line 83)
DtorNotify ==
    /\ pc[Dtor] = "dt_notify"
    /\ pc' = [NotifyOne(pc) EXCEPT ![Dtor] = "dt_join"]
    /\ UNCHANGED <<arg, cur, bgTasks, mainTasks, done, scheduled, mutexOwner,
                   mainMutexOwner, pumpPending, nextId, hist>>

\* _thread.join() returns once the worker's function has returned; the
\* members are then destroyed and the destructor returns    (lines 84-85)
DtorJoin ==
    /\ pc[Dtor] = "dt_join"
    /\ pc[Worker] = "exited"
    /\ pc' = [pc EXCEPT ![Dtor] = "returned"]
    /\ UNCHANGED <<arg, cur, bgTasks, mainTasks, done, scheduled, mutexOwner,
                   mainMutexOwner, pumpPending, nextId, hist>>

\* A runMainTasks invocation on the destroyed object reads freed memory:
\* it may go on as if the members were intact (the actions above) or
\* trap.                                                   (lines 204-207)
UseAfterFreeTrap ==
    /\ destroyed
    /\ InRunMainTasks
    /\ pc' = [pc EXCEPT ![Main] = "crashed"]
    /\ UNCHANGED <<arg, cur, bgTasks, mainTasks, done, scheduled, mutexOwner,
                   mainMutexOwner, pumpPending, nextId, hist>>

\* ------------------------------------------------------- specifications
\* A step of a call to runOnBgThread or runOnMain.
Call(t) ==
    \/ RunOnBgThreadLock(t)
    \/ RunOnBgThreadAppend(t)
    \/ RunOnBgThreadNotify(t)
    \/ RunOnMainLock(t)
    \/ RunOnMainAppend(t)
    \/ RunOnMainCheck(t)
    \/ RunOnMainPump(t)

WorkerStep ==
    \/ DequeueBgLock
    \/ DequeueBg
    \/ CvReacquire
    \/ TaskStart(Worker)
    \/ TaskEnd(Worker)
    \/ Call(Worker)

MainStep ==
    \/ RunMainTasksEnter
    \/ DequeueMainLock
    \/ DequeueMain
    \/ RunMainTasksReturn
    \/ TaskStart(Main)
    \/ TaskEnd(Main)
    \/ Call(Main)

DtorStep ==
    \/ DtorLock
    \/ DtorSetDone
    \/ DtorNotify
    \/ DtorJoin

\* The scheduler in use: submissions, the worker and the pump.
NextRun ==
    \/ \E s \in Submitters : Submit(s) \/ Call(s)
    \/ WorkerStep
    \/ MainStep

Next ==
    \/ NextRun
    \/ SpuriousWake
    \/ DtorStep
    \/ UseAfterFreeTrap

Spec == Init /\ [][Next]_vars

\* Every thread that can take a step of the code eventually takes one: the
\* operating system schedules the worker and the callers, and the pump
\* serves every request it was given.  No fairness is asked of the
\* environment's choices (a new submission, entering the destructor).
Progress ==
    /\ WF_vars(WorkerStep)
    /\ WF_vars(MainStep)
    /\ \A s \in Submitters : WF_vars(Call(s))

\* The scheduler in use and never torn down.  A spurious wake-up is left
\* out: the wake-ups the code issues must suffice on their own.
LiveSpec == Init /\ [][NextRun]_vars /\ Progress

\* The same with teardown.
NextFair ==
    \/ NextRun
    \/ DtorStep
    \/ UseAfterFreeTrap

FairSpec ==
    Init /\ [][NextFair]_vars /\ Progress
         /\ WF_vars(DtorSetDone \/ DtorNotify \/ DtorJoin)

\* ---------------------------------------------------------------- claims
Appended(q) == Range(appOrder[q])
Started(q) == Range(startOrder[q])
Finished(q) == Range(doneOrder[q])
\* Some thread is inside runOnMain.
InRunOnMain(t) == pc[t] \in {"rom_lock", "rom_append", "rom_check", "rom_pump"}
\* The runMainTasks invocation numbered d has returned to the pump.
Returned(d) == drains > d \/ (drains = d /\ pc[Main] = "idle")

\* C1: under any interleaving of runOnMain calls with the pump's
\* runMainTasks invocations, no task appended by runOnMain is ever run
\* twice, none is run by the worker, and each is eventually run to its end
\* (every pump request being served and every step being taken).
C1_MainTaskExactlyOnce ==
    /\ [](\A i \in TaskIds :
            /\ Count(startOrder["main"], i) <= 1
            /\ i \in Appended("main") => i \notin Started("bg"))
    /\ \A i \in TaskIds :
            (i \in Appended("main")) ~> (i \in Finished("main"))

\* C1's case: two main tasks, one of them appended while a runMainTasks
\* invocation was active, have both run.
C1_Witness ==
    /\ Len(appOrder["main"]) >= 2
    /\ Appended("main") = Finished("main")
    /\ \E i \in TaskIds : appDrain[i] > 0

\* Pump requests issued whose drain has not yet found _mainTasks empty:
\* those still pending, and the one being drained.
Outstanding == pumpPending + (IF Draining THEN 1 ELSE 0)

\* C2: at most one pump invocation is outstanding in every reachable state.
C2_AtMostOneOutstanding == Outstanding <= 1

\* C2's case: a second request is pending while the invocation serving the
\* first one, having found the queue empty, has not yet returned.
C2_Witness == pumpPending = 1 /\ pc[Main] = "rmt_ret" /\ pumpIssued = 2

\* C3: a task in _bgTasks while _done is false is eventually run to its
\* end by the worker, never twice, and the worker does not stay blocked in
\* the condition wait while _bgTasks is non-empty.
C3_BgTaskEventuallyRuns ==
    /\ [](\A i \in TaskIds : Count(startOrder["bg"], i) <= 1)
    /\ \A i \in TaskIds :
            (i \in Ids(bgTasks) /\ ~done) ~> (i \in Finished("bg"))
    /\ (pc[Worker] = "cv_blocked" /\ bgTasks # <<>>)
            ~> (pc[Worker] # "cv_blocked")

\* C3's case: the worker blocked in the wait, a task was appended, and the
\* notify_one that followed woke the worker.
C3_Witness == pc[Worker] = "cv_woken" /\ bgTasks # <<>> /\ ~done

\* C4: in each queue the bodies start in the order of the appends, and a
\* body finishes before the next one of that queue starts.
C4_FifoOneAtATime ==
    \A q \in Queues :
        /\ IsPrefix(startOrder[q], appOrder[q])
        /\ IsPrefix(doneOrder[q], startOrder[q])
        /\ Len(startOrder[q]) - Len(doneOrder[q]) <= 1

\* C4's case: two background tasks and a main task have run.
C4_Witness == Len(doneOrder["bg"]) >= 2 /\ Len(doneOrder["main"]) >= 1

\* C5: the worker exits only with _done set and _bgTasks empty, and by then
\* every task that was queued when _done was set has run exactly once.
C5_WorkerExitsDrained ==
    /\ [](pc[Worker] = "exited" =>
            /\ done
            /\ \A i \in atDone : Count(doneOrder["bg"], i) = 1)
    /\ [][(pc[Worker] # "exited" /\ pc'[Worker] = "exited") =>
            (done /\ bgTasks = <<>> /\ bgTasks' = <<>>)]_vars

\* C5's case: two tasks were queued when _done was set, and the worker has
\* exited.
C5_Witness == pc[Worker] = "exited" /\ Cardinality(atDone) >= 2

\* C6: once ~core_application has returned, no runMainTasks invocation is
\* running and no task body is executing.
C6_NothingRunsAfterDestroy ==
    destroyed => (~InRunMainTasks /\ \A r \in Runners : ~InBody(r))

\* C7: when ~core_application returns, every task appended to either queue
\* before teardown began has run, and both queues are empty.
C7_NoPendingWorkLost ==
    destroyed =>
        /\ preTeardown \subseteq (Finished("bg") \cup Finished("main"))
        /\ bgTasks = <<>>
        /\ mainTasks = <<>>

\* C8: from the idle main queue, the runOnMain calls made before the pump
\* starts runMainTasks never issue a second request, and once they have all
\* returned they have issued exactly one.
C8_OneRequestBeforeDrain ==
    drains = 0 =>
        /\ pumpIssued <= 1
        /\ (romReturned >= 1 /\ \A t \in Callers : ~InRunOnMain(t))
                => pumpIssued = 1

\* C8's case: three runOnMain calls have returned before the pump ran.
C8_Witness ==
    /\ drains = 0
    /\ romReturned = 3
    /\ \A t \in Callers : ~InRunOnMain(t)
    /\ pumpIssued = 1

\* C9 as stated: a task appended while a runMainTasks invocation has
\* started and not returned causes no pump request and is run by that
\* invocation before it returns.
C9_Original ==
    \A i \in TaskIds :
        appDrain[i] > 0 =>
            /\ i \notin pumper
            /\ Returned(appDrain[i]) =>
                    (ranIn[i] = appDrain[i] /\ i \in Finished("main"))

\* C9 amended: the same for a task appended before that invocation's
\* dequeueMain has found _mainTasks empty.
C9_DuringDrain ==
    \A i \in TaskIds :
        (appDrain[i] > 0 /\ i \notin sawEmpty) =>
            /\ i \notin pumper
            /\ Returned(appDrain[i]) =>
                    (ranIn[i] = appDrain[i] /\ i \in Finished("main"))

\* C9's case: a task appended during a drain was run by that invocation,
\* which has returned.
C9_Witness ==
    \E i \in TaskIds :
        /\ appDrain[i] > 0
        /\ i \notin sawEmpty
        /\ Returned(appDrain[i])
        /\ ranIn[i] = appDrain[i]
        /\ i \in Finished("main")

\* C10 as stated: the requests issued never exceed the empty-to-non-empty
\* transitions of _mainTasks, and are at least 1 once a runOnMain call has
\* returned.
C10_Original ==
    /\ pumpIssued <= transitions
    /\ romReturned >= 1 => pumpIssued >= 1

\* C10 amended: ... and are at least 1 once a runOnMain call has returned
\* and no caller is between setting the flag and issuing its request.
C10_RequestsBoundedByTransitions ==
    /\ pumpIssued <= transitions
    /\ (romReturned >= 1 /\ \A t \in Callers : pc[t] # "rom_pump")
            => pumpIssued >= 1

\* C10's case: the queue became non-empty more often than a request was
\* issued, every call having returned.
C10_Witness ==
    /\ transitions > pumpIssued
    /\ pumpIssued >= 1
    /\ romReturned >= 2
    /\ \A t \in Callers : ~InRunOnMain(t)


\* ------------------------------------------------------------- runTask5
\* The lambdas of runTask5: the background task, the main task it
\* submits, the background task that one submits and the last main task.
ChainTasks == 4
\* What the first of them does: runOnMain of a task that calls
\* runOnBgThread of a task that calls runOnMain of a plain task.
Task5Body == <<"main", "bg", "main">>

\* The scheduler as constructed, with room for the chain's ids.
InitChain ==
    /\ pc = [t \in Threads |->
                CASE t = Worker -> "dq_lock"
                  [] OTHER -> "idle"]
    /\ arg = [t \in Callers |-> NoTask]
    /\ cur = [t \in Runners |-> NoTask]
    /\ bgTasks = <<>>
    /\ mainTasks = <<>>
    /\ done = FALSE
    /\ scheduled = FALSE
    /\ mutexOwner = Nobody
    /\ mainMutexOwner = Nobody
    /\ pumpPending = 0
    /\ nextId = 1
    /\ pumpIssued = 0
    /\ transitions = 0
    /\ romReturned = 0
    /\ appOrder = [q \in Queues |-> <<>>]
    /\ startOrder = [q \in Queues |-> <<>>]
    /\ doneOrder = [q \in Queues |-> <<>>]
    /\ appDrain = [i \in 1..ChainTasks |-> 0]
    /\ sawEmpty = {}
    /\ ranIn = [i \in 1..ChainTasks |-> 0]
    /\ pumper = {}
    /\ preTeardown = {}
    /\ atDone = {}

\* runTask5(app): application->runOnBgThread(the first lambda); the chain's
\* tasks get the ids 1 (bg), 2 (main), 3 (bg), 4 (main)   (lines 184-202)
RunTask5(s) ==
    /\ pc[s] = "idle"
    /\ nextId = 1
    /\ arg' = [arg EXCEPT ![s] = Task(1, Task5Body)]
    /\ nextId' = ChainTasks + 1
    /\ pc' = [pc EXCEPT ![s] = Entry("bg")]
    /\ UNCHANGED <<cur, bgTasks, mainTasks, done, scheduled, mutexOwner,
                   mainMutexOwner, pumpPending, hist>>

NextChain ==
    \/ \E s \in Submitters : RunTask5(s) \/ Call(s)
    \/ WorkerStep
    \/ MainStep

\* One call of runTask5 on a fresh scheduler, every thread and the pump
\* being scheduled.
ChainSpec == InitChain /\ [][NextChain]_vars /\ Progress


\* C11: in the chain of runTask5 each of the four tasks runs exactly once,
\* the two background tasks on the worker and the two main tasks inside a
\* runMainTasks invocation, none starting before the one that submits it
\* has started; and all four run to their end.
C11_ChainOnceInOrder ==
    /\ [](/\ \A i \in 1..ChainTasks :
                Count(startOrder["bg"], i) + Count(startOrder["main"], i) <= 1
          /\ Started("bg") \subseteq {1, 3}
          /\ Started("main") \subseteq {2, 4}
          /\ \A i \in Started("main") : ranIn[i] >= 1 /\ ranIn[i] <= drains
          /\ \A i \in 2..ChainTasks :
                i \in (Started("bg") \cup Started("main"))
                    => (i - 1) \in (Started("bg") \cup Started("main")))
    /\ (appOrder["bg"] # <<>>)
            ~> (Finished("bg") = {1, 3} /\ Finished("main") = {2, 4})

\* C11's case: the whole chain has run.
C11_Witness == Finished("bg") = {1, 3} /\ Finished("main") = {2, 4}


\* C12 as stated: the runMainTasks invocation that runs the first main
\* task of the chain does not return before the whole chain has run.
C12_Original ==
    (ranIn[2] > 0 /\ Returned(ranIn[2])) =>
        (Finished("bg") = {1, 3} /\ Finished("main") = {2, 4})

\* C12 amended: that invocation does not return before the first main task
\* has run to its end, and so submitted the second background task; it
\* also runs the second main task when that one is appended before the
\* invocation has found _mainTasks empty, and a later invocation runs it
\* otherwise.
C12_OuterDrainCoversFirstMainTask ==
    (ranIn[2] > 0 /\ Returned(ranIn[2])) =>
        /\ 2 \in Finished("main")
        /\ 3 \in Appended("bg")
        /\ 4 \in Started("main") => ranIn[4] >= ranIn[2]
        /\ (4 \in Appended("main") /\ appDrain[4] = ranIn[2]
                /\ 4 \notin sawEmpty)
              => (ranIn[4] = ranIn[2] /\ 4 \in Finished("main"))
        /\ (4 \in Started("main") /\ ranIn[4] > ranIn[2]) => 4 \in pumper

\* C12's case: the invocation that ran the first main task has returned
\* having run the second one too.
C12_Witness ==
    /\ ranIn[2] > 0
    /\ Returned(ranIn[2])
    /\ ranIn[4] = ranIn[2]
    /\ 4 \in Finished("main")


\* The runner is inside a task body that submits to the queue the runner
\* itself drains; the task it submits is id + 1.
SelfSubmitting(r, i) ==
    /\ pc[r] # "body"
    /\ cur[r].id = i
    /\ cur[r].body # <<>>
    /\ Head(cur[r].body) = QueueOf(r)

\* C13: a task that submits a task to its own queue while it runs gets
\* through the submission and to its end, and the task it submitted is
\* then run to its end by the same runner.
C13_SelfSubmissionRuns ==
    \A r \in Runners : \A i \in 1..(MaxTasks - 1) :
        SelfSubmitting(r, i) ~>
            (i \in Finished(QueueOf(r)) /\ (i + 1) \in Finished(QueueOf(r)))

\* C13's case: a task has returned from the submission it made to its own
\* queue, and the task it submitted is queued behind it.
C13_Witness ==
    \E r \in Runners : \E i \in 1..(MaxTasks - 1) :
        /\ SelfSubmitting(r, i)
        /\ pc[r] = "body_end"
        /\ (i + 1) \in Appended(QueueOf(r))


\* C14: while a thread is inside runOnMain the task it is submitting has
\* not started (the call neither runs it nor waits for it), and a main
\* task only ever starts inside a runMainTasks invocation the pump made,
\* never on the worker.  A call made from the main context finds the flag
\* set and returns at line 103, without reaching the request of line 109.
C14_RunOnMainIsAsync ==
    /\ \A t \in Callers : InRunOnMain(t) => arg[t].id \notin Started("main")
    /\ pc[Main] # "rom_pump"
    /\ \A i \in Started("main") :
            /\ i \notin Started("bg")
            /\ ranIn[i] >= 1
            /\ ranIn[i] <= drains

\* C14's case: a main task called runOnMain from the main context, the
\* call has returned, and the task it submitted waits in _mainTasks.
C14_Witness ==
    \E i \in 1..(MaxTasks - 1) :
        /\ SelfSubmitting(Main, i)
        /\ pc[Main] = "body_end"
        /\ (i + 1) \in Ids(mainTasks)


\* The locks a thread holds.
Held(t) ==
    (IF mutexOwner = t THEN {"_mutex"} ELSE {})
        \cup (IF mainMutexOwner = t THEN {"_mainMutex"} ELSE {})

\* C15: no thread holds _mutex and _mainMutex at the same time.
C15_LocksNeverNested == \A t \in Threads : Cardinality(Held(t)) <= 1

\* C15's case: both locks are held at once, by two threads.
C15_Witness ==
    /\ mutexOwner # Nobody
    /\ mainMutexOwner # Nobody
    /\ InBody(Worker)
    /\ mainMutexOwner = Worker


\* C16 as stated: a runner inside a task body holds neither lock.
C16_Original == \A r \in Runners : InBody(r) => Held(r) = {}

\* C16 amended: a runner inside a task body holds a lock only inside the
\* critical section of a runOnBgThread or runOnMain call that body makes;
\* the lock of the dequeue is released when the body starts.
C16_BodyRunsUnlocked ==
    \A r \in Runners :
        InBody(r) =>
            /\ mutexOwner = r => pc[r] = "rob_append"
            /\ mainMutexOwner = r => pc[r] \in {"rom_append", "rom_check"}

\* C16's case: the main context is in a task body holding no lock, while
\* another thread holds _mainMutex.
C16_Witness ==
    /\ InBody(Main)
    /\ pc[Main] = "body_end"
    /\ Held(Main) = {}
    /\ mainMutexOwner \in Submitters \cup {Worker}


\* C17: ~core_application returns only after the worker has exited; once
\* it has issued its notify_one the worker is not blocked in the wait; and
\* once entered it returns.
C17_DtorJoinsAndReturns ==
    /\ [](destroyed => pc[Worker] = "exited")
    /\ [](pc[Dtor] \in {"dt_join", "returned"} => pc[Worker] # "cv_blocked")
    /\ (pc[Dtor] \in {"dt_set", "dt_notify", "dt_join"}) ~> destroyed

\* C17's case: the destructor's notify_one woke the worker out of the wait
\* and now waits in join.
C17_Witness ==
    /\ pc[Dtor] = "dt_join"
    /\ pc[Worker] = "cv_woken"
    /\ done
    /\ bgTasks = <<>>


\* -------------------------------------------- a task that never lets go
\* The iterations of the re-submitting task that are followed.
MaxLoops == 3
\* The main task that calls runOnMain with itself each time it runs.
ForeverId == MaxTasks + 1
Forever == Task(ForeverId, <<"forever">>)

\* The scheduler as constructed, with room for that task's id.
InitLoop ==
    /\ pc = [t \in Threads |->
                CASE t = Worker -> "dq_lock"
                  [] OTHER -> "idle"]
    /\ arg = [t \in Callers |-> NoTask]
    /\ cur = [t \in Runners |-> NoTask]
    /\ bgTasks = <<>>
    /\ mainTasks = <<>>
    /\ done = FALSE
    /\ scheduled = FALSE
    /\ mutexOwner = Nobody
    /\ mainMutexOwner = Nobody
    /\ pumpPending = 0
    /\ nextId = 1
    /\ pumpIssued = 0
    /\ transitions = 0
    /\ romReturned = 0
    /\ appOrder = [q \in Queues |-> <<>>]
    /\ startOrder = [q \in Queues |-> <<>>]
    /\ doneOrder = [q \in Queues |-> <<>>]
    /\ appDrain = [i \in 1..ForeverId |-> 0]
    /\ sawEmpty = {}
    /\ ranIn = [i \in 1..ForeverId |-> 0]
    /\ pumper = {}
    /\ preTeardown = {}
    /\ atDone = {}

\* A caller submits the re-submitting task with runOnMain, once.
SubmitForever(s) ==
    /\ pc[s] = "idle"
    /\ ForeverId \notin Appended("main")
    /\ \A t \in Callers : arg[t] # Forever
    /\ arg' = [arg EXCEPT ![s] = Forever]
    /\ pc' = [pc EXCEPT ![s] = Entry("main")]
    /\ UNCHANGED <<cur, bgTasks, mainTasks, done, scheduled, mutexOwner,
                   mainMutexOwner, pumpPending, nextId, hist>>

\* task() on the main context (line 116): the re-submitting task calls
\* runOnMain with itself, every other task does what TaskStart says.
TaskStartOnMain ==
    IF cur[Main] = Forever
      THEN /\ pc[Main] = "body"
           /\ Count(startOrder["main"], ForeverId) < MaxLoops
           /\ startOrder' = [startOrder EXCEPT !["main"] = Append(@, ForeverId)]
           /\ arg' = [arg EXCEPT ![Main] = Forever]
           /\ pc' = [pc EXCEPT ![Main] = Entry("main")]
           /\ UNCHANGED <<cur, bgTasks, mainTasks, done, scheduled,
                          mutexOwner, mainMutexOwner, pumpPending, nextId,
                          pumpIssued, transitions, romReturned, appOrder,
                          doneOrder, appDrain, sawEmpty, ranIn, pumper,
                          preTeardown, atDone>>
      ELSE TaskStart(Main)

MainStepLoop ==
    \/ RunMainTasksEnter
    \/ DequeueMainLock
    \/ DequeueMain
    \/ RunMainTasksReturn
    \/ TaskStartOnMain
    \/ TaskEnd(Main)
    \/ Call(Main)

NextLoop ==
    \/ SubmitForever("s1")
    \/ Submit("s2")
    \/ \E s \in Submitters : Call(s)
    \/ WorkerStep
    \/ MainStepLoop

\* The scheduler in use with one re-submitting main task among the others.
LoopSpec ==
    /\ InitLoop
    /\ [][NextLoop]_vars
    /\ WF_vars(WorkerStep)
    /\ WF_vars(MainStepLoop)
    /\ \A s \in Submitters : WF_vars(Call(s))


\* The re-submitting task has begun to run.
LoopRunning == ForeverId \in Started("main")

\* C18: once a main task that re-submits itself with runOnMain has begun to
\* run, the runMainTasks invocation that dequeued it never returns: it is
\* still the current drain and still looping, _scheduledToRunOnMain stays
\* true, no pump request is issued any more, and the drain goes on to
\* dequeue and run every re-submitted copy that is followed.
C18_ResubmittingTaskStarvesReturn ==
    /\ [](LoopRunning => /\ Draining
                         /\ scheduled
                         /\ ranIn[ForeverId] = drains)
    /\ [][LoopRunning => pumpIssued' = pumpIssued]_vars
    /\ LoopRunning ~> (Count(startOrder["main"], ForeverId) = MaxLoops)

\* The re-submitting task has run twice and a task another caller appended
\* meanwhile, without a pump request, has been run by the same drain.
C18_Witness ==
    /\ Count(startOrder["main"], ForeverId) >= 2
    /\ \E i \in TaskIds :
          /\ i \in Finished("main")
          /\ i \notin pumper
          /\ appDrain[i] = ranIn[ForeverId]
          /\ ranIn[i] = ranIn[ForeverId]


\* C19: while the object lives the dispatch flag never gets stuck.
\* _scheduledToRunOnMain goes from true to false only in dequeueMain, with
\* _mainMutex held by the main context and _mainTasks observed empty, on
\* the way out of the drain; whenever it is true with _mainMutex free, a
\* caller stands between setting it and issuing its pump request, or a
\* pump request is pending, or a runMainTasks drain is still looping; and
\* a runOnMain that finds it false, as the first one after a drain has
\* ended does, sets it and issues a pump request.
C19_FlagNeverStuck ==
    /\ [][(~destroyed' /\ scheduled /\ ~scheduled') =>
             /\ pc[Main] = "dqm_check"
             /\ mainMutexOwner = Main
             /\ mainTasks = <<>>
             /\ mainTasks' = <<>>
             /\ pc'[Main] = "rmt_ret"]_vars
    /\ []((~destroyed /\ scheduled /\ mainMutexOwner = Nobody) =>
             \/ \E t \in Callers : pc[t] = "rom_pump"
             \/ pumpPending > 0
             \/ Draining)
    /\ [][\A t \in Callers :
             (~destroyed' /\ pc[t] = "rom_check" /\ pc'[t] # "rom_check"
                 /\ ~scheduled) =>
                 (scheduled' /\ pc'[t] = "rom_pump")]_vars
    /\ [][\A t \in Callers :
             (~destroyed' /\ pc[t] = "rom_pump" /\ pc'[t] # "rom_pump") =>
                 (pumpIssued' = pumpIssued + 1
                     /\ pumpPending' = pumpPending + 1)]_vars

\* A drain has ended and cleared the flag, and the next runOnMain has set
\* it again and issued the second pump request, which is pending.
C19_Witness ==
    /\ ~destroyed
    /\ transitions = 2
    /\ pumpIssued = 2
    /\ pumpPending = 1
    /\ pc[Main] = "idle"
    /\ scheduled
    /\ mainTasks # <<>>


\* C20: in every reachable state in which _mainMutex is not held, a
\* non-empty _mainTasks implies _scheduledToRunOnMain is true (whenever the
\* flag is false the queue is empty), and while the object lives a queued
\* main task has a drain answerable for it: one still looping, one
\* requested and pending, or one whose request is about to be issued.
C20_QueuedImpliesScheduled ==
    /\ (mainMutexOwner = Nobody /\ mainTasks # <<>>) => scheduled
    /\ (mainMutexOwner = Nobody /\ ~scheduled) => mainTasks = <<>>
    /\ (mainMutexOwner = Nobody /\ mainTasks # <<>> /\ ~destroyed) =>
          \/ Draining
          \/ pumpPending > 0
          \/ \E t \in Callers : pc[t] = "rom_pump"

\* A task was appended with the flag already true, so without a request
\* of its own, while the drain runs another task's body with the lock free.
C20_Witness ==
    /\ mainMutexOwner = Nobody
    /\ mainTasks # <<>>
    /\ scheduled
    /\ pc[Main] = "body"
    /\ pumpPending = 0
    /\ \A t \in Callers : pc[t] # "rom_pump"
    /\ Head(mainTasks).id \notin pumper
    /\ Head(mainTasks).id \in Appended("main")

====
